---- MODULE Spec2Model ----
(***************************************************************************)
(* A state-machine model of the DDP client of src/ddp_stats.go (type       *)
(* Client): the registries of calls, subscriptions and pings, the inbox    *)
(* dispatcher (inboxManager), the per-transport reader (inboxWorker), the  *)
(* heartbeat timer and Reconnect.                                          *)
(*                                                                         *)
(* Goroutines are interleaved at the places where the code reads or writes *)
(* the shared field c.ws: Reconnect is split after Close and after the     *)
(* assignment of c.ws in start, Go and Subscribe are split between the     *)
(* registration and the Send.  The dispatcher handles one inbox message    *)
(* per step, and a handler's accesses to the maps are one step.            *)
(*                                                                         *)
(* Left out: the collections (their type is not part of the source file),  *)
(* the log output, the errors channel, the nil event of inboxWorker, and   *)
(* the heartbeat timers that a later "connected" message replaces without  *)
(* stopping them.                                                          *)
(*                                                                         *)
(* Identifiers are numbers: 0 stands for the empty string, 1..MaxID are    *)
(* the ids minted by newID, UserKey is an id chosen by a PingPong caller.  *)
(***************************************************************************)
EXTENDS Integers, Sequences, FiniteSets, TLC

\* ---------------------------------------------------------------- bounds
MaxID == 2
MaxTransports == 3
MaxReconnects == 2
MaxRecv == 3
MaxPings == 2
InboxCap == 2

\* ------------------------------------------------------------- value sets
Methods == {"echo"}
ArgLists == {<<"x">>}
Sessions == {"s1"}
DoneKinds == {"nil", "buffered", "unbuffered"}
IDs == 1..MaxID
Transports == 1..MaxTransports
Threads == 1..MaxReconnects
UserKey == MaxID + 1
UserKeys == {0, UserKey}

VARIABLES
    ws,          \* c.ws: the current transport, 0 for nil
    conn,        \* every websocket.Conn dialed so far: "none", "open", "closed"
    worker,      \* inboxWorker(ws) of each transport: its position
    sent,        \* what was sent on each transport: the first message and
                 \* the set of all messages
    inbox,       \* c.inbox
    recvd,       \* number of messages read from the transports so far
    nextID,      \* idManager: the next id newID returns
    call,        \* the Call objects, by id
    calls,       \* c.calls: the ids registered
    subs,        \* c.subs: the ids registered
    pings,       \* c.pings: key -> sequence of trackers (indices into trk)
    trk,         \* the pingTracker objects, in enrolment order
    pingTimer,   \* c.pingTimer: "nil", "armed", "idle"
    session,     \* c.session
    version,     \* c.version
    reconnects,  \* c.reconnects
    rc,          \* the executions of Reconnect: position and local ws
    halted       \* the process has panicked or exited

vars == <<ws, conn, worker, sent, inbox, recvd, nextID, call, calls, subs,
          pings, trk, pingTimer, session, version, reconnects, rc, halted>>

\* ---------------------------------------------------------------- messages
NewConnect == [msg |-> "connect", version |-> "1", session |-> ""]
NewReconnect(s) == [msg |-> "connect", version |-> "1", session |-> s]
NewMethod(id, m, a) == [msg |-> "method", id |-> id, method |-> m, params |-> a]
NewSub(id, n, a) == [msg |-> "sub", id |-> id, name |-> n, params |-> a]
NewPing(id) == [msg |-> "ping", id |-> id]
NewPong(id) == [msg |-> "pong", id |-> id]

\* ------------------------------------------------------------------- Send
\* Send fails on a nil socket (and on a closed connection).
SendFails == ws = 0 \/ conn[ws] # "open"

\* The wire of a transport after one more message.
Wire(w, m) == [first |-> IF w.first = <<>> THEN <<m>> ELSE w.first,
               msgs |-> w.msgs \cup {m}]

NoWire == [first |-> <<>>, msgs |-> {}]

Send(s, m) == IF SendFails THEN s ELSE [s EXCEPT ![ws] = Wire(@, m)]

RECURSIVE SendAll(_, _)
SendAll(s, ms) == IF ms = <<>> THEN s ELSE SendAll(Send(s, Head(ms)), Tail(ms))

\* ------------------------------------------------------------ Call objects
NoCall == [kind |-> "none", ServiceMethod |-> "", Args |-> <<>>,
           Error |-> "", Reply |-> "", Done |-> 0, phase |-> "none"]

NewCall(kind, m, a) == [kind |-> kind, ServiceMethod |-> m, Args |-> a,
                        Error |-> "", Reply |-> "", Done |-> 0,
                        phase |-> "registered"]

\* call.done(): one more signal on the Done channel of the Call.
CallDone(c) == [c EXCEPT !.Done = @ + 1]

\* newID is defined while the bound on minted ids is not reached.
CanMint == nextID <= MaxID

\* ---------------------------------------------------- Reconnect executions
FreeThreads == {r \in Threads : rc[r].pc = "none"}
CanSpawn == FreeThreads # {}
FirstFree == CHOOSE r \in FreeThreads : \A q \in FreeThreads : r <= q
\* time.AfterFunc(c.ReconnectInterval, c.Reconnect) and go c.Reconnect():
\* one more execution of Reconnect that has not started yet.
Spawn(threads) == [threads EXCEPT ![FirstFree].pc = "scheduled"]

\* ------------------------------------------------------------------ Close
\* c.pingTimer.Stop() on a nil timer is a nil dereference.
ClosePanics == pingTimer = "nil"
ClosedConn == IF ws # 0 THEN [conn EXCEPT ![ws] = "closed"] ELSE conn

\* A Close that calls c.ws.Close() without the test for nil.
CloseOfUnchecked(w, cn, pt) ==
    IF pt = "nil" \/ w = 0
    THEN [panics |-> TRUE, pingTimer |-> pt, conn |-> cn, ws |-> w]
    ELSE [panics |-> FALSE, pingTimer |-> "idle",
          conn |-> [cn EXCEPT ![w] = "closed"], ws |-> 0]

\* Close as a function of the fields it reads: whether it panics, and the
\* heartbeat timer, the connections and c.ws when it returns.
CloseOf(w, cn, pt) ==
    IF pt = "nil"
    THEN [panics |-> TRUE, pingTimer |-> pt, conn |-> cn, ws |-> w]
    ELSE [panics |-> FALSE, pingTimer |-> "idle",
          conn |-> IF w # 0 THEN [cn EXCEPT ![w] = "closed"] ELSE cn,
          ws |-> 0]

Close ==
    LET c == CloseOf(ws, conn, pingTimer) IN
    /\ halted' = (halted \/ c.panics)
    /\ pingTimer' = c.pingTimer
    /\ conn' = c.conn
    /\ ws' = c.ws

\* ------------------------------------------------------------------- Init
Init ==
    /\ ws = 1
    /\ conn = [t \in Transports |-> IF t = 1 THEN "open" ELSE "none"]
    /\ worker = [t \in Transports |-> IF t = 1 THEN "reading" ELSE "none"]
    /\ sent = [t \in Transports |-> IF t = 1 THEN Wire(NoWire, NewConnect) ELSE NoWire]
    /\ inbox = <<>>
    /\ recvd = 0
    /\ nextID = 1
    /\ call = [i \in IDs |-> NoCall]
    /\ calls = {}
    /\ subs = {}
    /\ pings = <<>>
    /\ trk = <<>>
    /\ pingTimer = "nil"
    /\ session = ""
    /\ version = ""
    /\ reconnects = 0
    /\ rc = [r \in Threads |-> [pc |-> "none", ws |-> 0]]
    /\ halted = FALSE

\* ----------------------------------------------------------- Go, Subscribe
\* A Go that tests the done channel only after it registered the call.
GoRegistersFirst(m, a, done) ==
    /\ ~halted
    /\ CanMint
    /\ nextID' = nextID + 1
    /\ call' = [call EXCEPT ![nextID] = NewCall("method", m, a)]
    /\ calls' = calls \cup {nextID}
    /\ halted' = (done = "unbuffered")
    /\ UNCHANGED <<ws, conn, worker, sent, inbox, recvd, subs, pings, trk,
                   pingTimer, session, version, reconnects, rc>>

\* Go up to c.calls[call.ID] = call.  An unbuffered done channel panics
\* after the id is minted and before the call is registered.
Go(m, a, done) ==
    /\ ~halted
    /\ CanMint
    /\ nextID' = nextID + 1
    /\ IF done = "unbuffered"
       THEN /\ halted' = TRUE
            /\ UNCHANGED <<call, calls>>
       ELSE /\ call' = [call EXCEPT ![nextID] = NewCall("method", m, a)]
            /\ calls' = calls \cup {nextID}
            /\ UNCHANGED halted
    /\ UNCHANGED <<ws, conn, worker, sent, inbox, recvd, subs, pings, trk,
                   pingTimer, session, version, reconnects, rc>>

\* The rest of Go: c.Send(NewMethod(call.ID, serviceMethod, args)).
GoSend(id) ==
    /\ ~halted
    /\ call[id].kind = "method"
    /\ call[id].phase = "registered"
    /\ sent' = Send(sent, NewMethod(id, call[id].ServiceMethod, call[id].Args))
    /\ call' = [call EXCEPT ![id].phase = "returned"]
    /\ UNCHANGED <<ws, conn, worker, inbox, recvd, nextID, calls, subs, pings,
                   trk, pingTimer, session, version, reconnects, rc, halted>>

\* Subscribe up to c.subs[call.ID] = call.
Subscribe(n, a, done) ==
    /\ ~halted
    /\ CanMint
    /\ nextID' = nextID + 1
    /\ IF done = "unbuffered"
       THEN /\ halted' = TRUE
            /\ UNCHANGED <<call, subs>>
       ELSE /\ call' = [call EXCEPT ![nextID] = NewCall("sub", n, a)]
            /\ subs' = subs \cup {nextID}
            /\ UNCHANGED halted
    /\ UNCHANGED <<ws, conn, worker, sent, inbox, recvd, calls, pings, trk,
                   pingTimer, session, version, reconnects, rc>>

\* The rest of Subscribe: c.Send(NewSub(call.ID, subName, args)).
SubscribeSend(id) ==
    /\ ~halted
    /\ call[id].kind = "sub"
    /\ call[id].phase = "registered"
    /\ sent' = Send(sent, NewSub(id, call[id].ServiceMethod, call[id].Args))
    /\ call' = [call EXCEPT ![id].phase = "returned"]
    /\ UNCHANGED <<ws, conn, worker, inbox, recvd, nextID, calls, subs, pings,
                   trk, pingTimer, session, version, reconnects, rc, halted>>

\* ------------------------------------------------------------------ pings
\* A pingTracker with its handler: nOk and nErr count the calls handler(nil)
\* and handler(err).  kind "heartbeat" is the handler of Ping, which starts
\* a Reconnect on an error; kind "user" is a caller's handler.
NewTracker(id, kind) ==
    [id |-> id, kind |-> kind, timer |-> "armed", nOk |-> 0, nErr |-> 0]

\* c.pings[id] = append(pings, tracker)
Enrolled(id, t) ==
    [k \in DOMAIN pings \cup {id} |->
        IF k = id
        THEN Append(IF id \in DOMAIN pings THEN pings[id] ELSE <<>>, t)
        ELSE pings[k]]

CanPing == Len(trk) < MaxPings

PingPong(id, kind) ==
    /\ CanPing
    /\ IF SendFails
       THEN \* handler(err), nothing enrolled
            /\ trk' = Append(trk, [NewTracker(id, kind) EXCEPT
                                     !.timer = "none", !.nErr = 1])
            /\ IF kind = "heartbeat"
               THEN CanSpawn /\ rc' = Spawn(rc)
               ELSE UNCHANGED rc
            /\ UNCHANGED <<sent, pings>>
       ELSE /\ sent' = Send(sent, NewPing(id))
            /\ trk' = Append(trk, NewTracker(id, kind))
            /\ pings' = Enrolled(id, Len(trk) + 1)
            /\ UNCHANGED rc

\* A caller's PingPong(id, timeout, handler).
UserPingPong(id) ==
    /\ ~halted
    /\ PingPong(id, "user")
    /\ UNCHANGED <<ws, conn, worker, inbox, recvd, nextID, call, calls, subs,
                   pingTimer, session, version, reconnects, halted>>

\* Ping: PingPong(c.newID(), c.HeartbeatTimeout, reconnect on error).
Ping ==
    /\ CanMint
    /\ nextID' = nextID + 1
    /\ PingPong(nextID, "heartbeat")

UserPing ==
    /\ ~halted
    /\ Ping
    /\ UNCHANGED <<ws, conn, worker, inbox, recvd, call, calls, subs,
                   pingTimer, session, version, reconnects, halted>>

\* The function of c.pingTimer fires.
Heartbeat ==
    /\ ~halted
    /\ pingTimer = "armed"
    /\ IF ws # 0
       THEN /\ Ping
            /\ UNCHANGED pingTimer
       ELSE /\ pingTimer' = "idle"
            /\ UNCHANGED <<nextID, sent, trk, pings, rc>>
    /\ UNCHANGED <<ws, conn, worker, inbox, recvd, call, calls, subs,
                   session, version, reconnects, halted>>

\* The timer of tracker i fires: handler(fmt.Errorf("ping timeout")).
Timeout(i) ==
    /\ ~halted
    /\ i \in 1..Len(trk)
    /\ trk[i].timer = "armed"
    /\ trk' = [trk EXCEPT ![i].timer = "fired", ![i].nErr = @ + 1]
    /\ IF trk[i].kind = "heartbeat"
       THEN CanSpawn /\ rc' = Spawn(rc)
       ELSE UNCHANGED rc
    /\ UNCHANGED <<ws, conn, worker, sent, inbox, recvd, nextID, call, calls,
                   subs, pings, pingTimer, session, version, reconnects, halted>>

\* A Close that also empties the registries and signals every pending Call.
UserCloseCancels ==
    /\ ~halted
    /\ Close
    /\ calls' = {}
    /\ subs' = {}
    /\ call' = [i \in IDs |-> IF i \in calls \cup subs
                                THEN CallDone(call[i]) ELSE call[i]]
    /\ UNCHANGED <<worker, sent, inbox, recvd, nextID, pings, trk, session,
                   version, reconnects, rc>>

\* A caller's Close().
UserClose ==
    /\ ~halted
    /\ Close
    /\ UNCHANGED <<worker, sent, inbox, recvd, nextID, call, calls, subs, pings,
                   trk, session, version, reconnects, rc>>

\* A caller's Reconnect(): one more execution.
UserReconnect ==
    /\ ~halted
    /\ CanSpawn
    /\ rc' = Spawn(rc)
    /\ UNCHANGED <<ws, conn, worker, sent, inbox, recvd, nextID, call, calls,
                   subs, pings, trk, pingTimer, session, version, reconnects,
                   halted>>

\* ------------------------------------------------------------ inboxWorker
Minted == 1..(nextID - 1)

\* What a server may send: replies that name ids the client has used.
ServerMsgs ==
    {[msg |-> "connected", session |-> s] : s \in Sessions}
    \cup {[msg |-> "failed"], [msg |-> "updated"], [msg |-> "ping", id |-> 0]}
    \cup {[msg |-> "pong", id |-> k] : k \in UserKeys \cup Minted}
    \cup {[msg |-> "nosub", id |-> i, error |-> "denied"] : i \in Minted}
    \cup {[msg |-> "ready", subs |-> <<i>>] : i \in Minted}
    \cup {[msg |-> "result", id |-> i, error |-> e] : i \in Minted, e \in {"", "boom"}}

\* One iteration of the loop: a message is read, the heartbeat timer is
\* reset when there is one, the message is queued (blocking on a full inbox).
WorkerReceive(t, m) ==
    /\ ~halted
    /\ worker[t] = "reading"
    /\ conn[t] = "open"
    /\ recvd < MaxRecv
    /\ Len(inbox) < InboxCap
    /\ recvd' = recvd + 1
    /\ pingTimer' = IF pingTimer # "nil" THEN "armed" ELSE pingTimer
    /\ inbox' = Append(inbox, m)
    /\ UNCHANGED <<ws, conn, worker, sent, nextID, call, calls, subs, pings,
                   trk, session, version, reconnects, rc, halted>>

\* Receive returns an error (the connection was closed here, or it failed or
\* ended on the server's side): the loop is left.
WorkerFail(t) ==
    /\ ~halted
    /\ worker[t] = "reading"
    /\ worker' = [worker EXCEPT ![t] = "failed"]
    /\ UNCHANGED <<ws, conn, sent, inbox, recvd, nextID, call, calls, subs,
                   pings, trk, pingTimer, session, version, reconnects, rc,
                   halted>>

\* After the loop: c.Close() and time.AfterFunc(c.ReconnectInterval, c.Reconnect).
WorkerExit(t) ==
    /\ ~halted
    /\ worker[t] = "failed"
    /\ ClosePanics \/ CanSpawn
    /\ Close
    /\ IF ClosePanics
       THEN UNCHANGED <<worker, rc>>
       ELSE /\ worker' = [worker EXCEPT ![t] = "exited"]
            /\ rc' = Spawn(rc)
    /\ UNCHANGED <<sent, inbox, recvd, nextID, call, calls, subs, pings, trk,
                   session, version, reconnects>>

\* -------------------------------------------------------------- Reconnect
\* c.Close(); c.reconnects++ (the counter, which the code only logs, is
\* counted up to MaxReconnects)
ReconnectBegin(r) ==
    /\ ~halted
    /\ rc[r].pc = "scheduled"
    /\ Close
    /\ IF ClosePanics
       THEN UNCHANGED <<rc, reconnects>>
       ELSE /\ rc' = [rc EXCEPT ![r].pc = "dial"]
            /\ reconnects' = IF reconnects < MaxReconnects
                              THEN reconnects + 1 ELSE reconnects
    /\ UNCHANGED <<worker, sent, inbox, recvd, nextID, call, calls, subs, pings,
                   trk, session, version>>

Undialed == {t \in Transports : conn[t] = "none"}
FirstUndialed == CHOOSE t \in Undialed : \A u \in Undialed : t <= u

\* websocket.Dial succeeds, and start begins: c.ws = ws; go c.inboxWorker(ws)
ReconnectDial(r) ==
    /\ ~halted
    /\ rc[r].pc = "dial"
    /\ Undialed # {}
    /\ conn' = [conn EXCEPT ![FirstUndialed] = "open"]
    /\ ws' = FirstUndialed
    /\ worker' = [worker EXCEPT ![FirstUndialed] = "reading"]
    /\ rc' = [rc EXCEPT ![r] = [pc |-> "connect", ws |-> FirstUndialed]]
    /\ UNCHANGED <<sent, inbox, recvd, nextID, call, calls, subs, pings, trk,
                   pingTimer, session, version, reconnects, halted>>

\* websocket.Dial fails: Reconnect again after the interval, and return.
ReconnectDialError(r) ==
    /\ ~halted
    /\ rc[r].pc = "dial"
    /\ CanSpawn
    /\ rc' = Spawn([rc EXCEPT ![r].pc = "done"])
    /\ UNCHANGED <<ws, conn, worker, sent, inbox, recvd, nextID, call, calls,
                   subs, pings, trk, pingTimer, session, version, reconnects,
                   halted>>

\* The orders in which a range over a map may visit its keys.
Orders(S) ==
    {f \in [1..Cardinality(S) -> S] : \A i, j \in DOMAIN f : i # j => f[i] # f[j]}

MethodOf(id) == NewMethod(id, call[id].ServiceMethod, call[id].Args)
SubOf(id) == NewSub(id, call[id].ServiceMethod, call[id].Args)

\* The messages of the two replay loops, calls first.
Replay(co, so) ==
    [i \in 1..Len(co) |-> MethodOf(co[i])] \o [i \in 1..Len(so) |-> SubOf(so[i])]

\* A replay that empties the call registry once the calls are resent.
ReconnectReplayForgets(r) ==
    /\ ~halted
    /\ rc[r].pc = "connect"
    /\ \E co \in Orders(calls), so \in Orders(subs) :
          sent' = SendAll(sent, <<NewReconnect(session)>> \o Replay(co, so))
    /\ rc' = [rc EXCEPT ![r].pc = "done"]
    /\ calls' = {}
    /\ UNCHANGED <<ws, conn, worker, inbox, recvd, nextID, call, subs,
                   pings, trk, pingTimer, session, version, reconnects, halted>>

\* The rest of start and of Reconnect: c.Send(connect) with connect =
\* NewReconnect(c.session), then the loops over c.calls and c.subs (and the
\* reset of the collections).  c.session is read before the dial; it is
\* set by the time Close can return and Sessions has one value, so reading
\* it here gives the same message.
ReconnectReplay(r) ==
    /\ ~halted
    /\ rc[r].pc = "connect"
    /\ \E co \in Orders(calls), so \in Orders(subs) :
          sent' = SendAll(sent, <<NewReconnect(session)>> \o Replay(co, so))
    /\ rc' = [rc EXCEPT ![r].pc = "done"]
    /\ UNCHANGED <<ws, conn, worker, inbox, recvd, nextID, call, calls, subs,
                   pings, trk, pingTimer, session, version, reconnects, halted>>

\* An execution of Reconnect that has returned is over: its goroutine ends.
Retire(r) ==
    /\ ~halted
    /\ rc[r].pc = "done"
    /\ rc' = [rc EXCEPT ![r] = [pc |-> "none", ws |-> 0]]
    /\ UNCHANGED <<ws, conn, worker, sent, inbox, recvd, nextID, call, calls,
                   subs, pings, trk, pingTimer, session, version, reconnects,
                   halted>>

\* A closed transport whose worker has returned is referred to by nothing:
\* it is forgotten.
Recycle(t) ==
    /\ ~halted
    /\ conn[t] = "closed"
    /\ worker[t] = "exited"
    /\ ws # t
    /\ \A r \in Threads : rc[r].ws # t
    /\ conn' = [conn EXCEPT ![t] = "none"]
    /\ worker' = [worker EXCEPT ![t] = "none"]
    /\ sent' = [sent EXCEPT ![t] = NoWire]
    /\ UNCHANGED <<ws, inbox, recvd, nextID, call, calls, subs, pings, trk,
                   pingTimer, session, version, reconnects, rc, halted>>

\* ----------------------------------------------------------- inboxManager
\* A dispatcher that takes the newest message of c.inbox.
TakeNewest(kind) ==
    /\ ~halted
    /\ inbox # <<>>
    /\ Head(inbox).msg = kind
    /\ inbox' = SubSeq(inbox, 1, Len(inbox) - 1)

\* One message is taken from c.inbox and routed on its "msg" field.
Take(kind) ==
    /\ ~halted
    /\ inbox # <<>>
    /\ Head(inbox).msg = kind
    /\ inbox' = Tail(inbox)

\* case "connected": the session is stored and the heartbeat timer created.
DispatchConnected ==
    /\ Take("connected")
    /\ version' = "1"
    /\ session' = Head(inbox).session
    /\ pingTimer' = "armed"
    /\ UNCHANGED <<ws, conn, worker, sent, recvd, nextID, call, calls, subs,
                   pings, trk, reconnects, rc, halted>>

\* case "failed": log.Fatal ends the process.
DispatchFailed ==
    /\ Take("failed")
    /\ halted' = TRUE
    /\ UNCHANGED <<ws, conn, worker, sent, recvd, nextID, call, calls, subs,
                   pings, trk, pingTimer, session, version, reconnects, rc>>

\* case "ping": answered with a pong echoing the id.
DispatchPing ==
    /\ Take("ping")
    /\ sent' = Send(sent, NewPong(Head(inbox).id))
    /\ UNCHANGED <<ws, conn, worker, recvd, nextID, call, calls, subs, pings,
                   trk, pingTimer, session, version, reconnects, rc, halted>>

\* pings, ok := c.pings[key]; ok && len(pings) > 0
HasTracker(key) == key \in DOMAIN pings /\ Len(pings[key]) > 0

\* A pong that stores the slice whether or not a tracker was found.
PongPingsStored(key) ==
    [k \in DOMAIN pings \cup {key} |->
        IF k = key
        THEN (IF HasTracker(key) THEN Tail(pings[key]) ELSE <<>>)
        ELSE pings[k]]

\* c.pings after a pong for key: the head is dropped, and the shortened
\* slice is stored only for the empty key or when trackers remain.
PongPings(key) ==
    IF HasTracker(key) /\ (key = 0 \/ Len(Tail(pings[key])) > 0)
    THEN [pings EXCEPT ![key] = Tail(@)]
    ELSE pings

\* A pong that resolves the newest tracker of key.
PongTrackersNewest(key) ==
    IF HasTracker(key)
    THEN [trk EXCEPT ![pings[key][Len(pings[key])]] =
            [@ EXCEPT !.timer = IF @ = "armed" THEN "stopped" ELSE @,
                      !.nOk = @ + 1]]
    ELSE trk

\* ping.timer.Stop(); ping.handler(nil) for the head tracker of key.
PongTrackers(key) ==
    IF HasTracker(key)
    THEN [trk EXCEPT ![Head(pings[key])] =
            [@ EXCEPT !.timer = IF @ = "armed" THEN "stopped" ELSE @,
                      !.nOk = @ + 1]]
    ELSE trk

\* case "pong"
DispatchPong ==
    /\ Take("pong")
    /\ pings' = PongPings(Head(inbox).id)
    /\ trk' = PongTrackers(Head(inbox).id)
    /\ UNCHANGED <<ws, conn, worker, sent, recvd, nextID, call, calls, subs,
                   pingTimer, session, version, reconnects, rc, halted>>

\* case "nosub": delete(c.subs, id)
NosubSubs(id) == subs \ {id}

\* The Call objects after a nosub for id.
NosubCall(id) == call

DispatchNosub ==
    /\ Take("nosub")
    /\ subs' = NosubSubs(Head(inbox).id)
    /\ call' = NosubCall(Head(inbox).id)
    /\ UNCHANGED <<ws, conn, worker, sent, recvd, nextID, calls, pings, trk,
                   pingTimer, session, version, reconnects, rc, halted>>

\* case "ready": call.done() for every listed id found in c.subs.
RECURSIVE ReadyCall(_, _)
ReadyCall(cs, ids) ==
    IF ids = <<>> THEN cs
    ELSE ReadyCall(IF Head(ids) \in subs
                   THEN [cs EXCEPT ![Head(ids)] = CallDone(@)]
                   ELSE cs,
                   Tail(ids))

\* c.subs after a ready message.
ReadySubs(ids) == subs

DispatchReady ==
    /\ Take("ready")
    /\ call' = ReadyCall(call, Head(inbox).subs)
    /\ subs' = ReadySubs(Head(inbox).subs)
    /\ UNCHANGED <<ws, conn, worker, sent, recvd, nextID, calls, pings, trk,
                   pingTimer, session, version, reconnects, rc, halted>>

\* A result that leaves the call registered.
ResultCallsKept(id) == calls

\* case "result": c.calls after the message; the call found is deleted.
ResultCalls(id) == calls \ {id}

\* The Call object after the message: Error or Reply is set, then done().
ResultCall(c, m) ==
    CallDone(IF m.error # ""
             THEN [c EXCEPT !.Error = m.error]
             ELSE [c EXCEPT !.Reply = "value"])

\* A result case that does not look the id up in c.calls.
DispatchResultUnguarded ==
    /\ Take("result")
    /\ LET m == Head(inbox) IN
       /\ calls' = ResultCalls(m.id)
       /\ call' = [call EXCEPT ![m.id] = ResultCall(@, m)]
    /\ UNCHANGED <<ws, conn, worker, sent, recvd, nextID, subs, pings, trk,
                   pingTimer, session, version, reconnects, rc, halted>>

DispatchResult ==
    /\ Take("result")
    /\ LET m == Head(inbox) IN
       IF m.id \in calls
       THEN /\ calls' = ResultCalls(m.id)
            /\ call' = [call EXCEPT ![m.id] = ResultCall(@, m)]
       ELSE UNCHANGED <<calls, call>>
    /\ UNCHANGED <<ws, conn, worker, sent, recvd, nextID, subs, pings, trk,
                   pingTimer, session, version, reconnects, rc, halted>>

\* case "updated", the collection messages and unknown messages: the
\* registries and the connection are not touched.
DispatchOther ==
    /\ Take("updated")
    /\ UNCHANGED <<ws, conn, worker, sent, recvd, nextID, call, calls, subs,
                   pings, trk, pingTimer, session, version, reconnects, rc,
                   halted>>

\* ------------------------------------------------------------------- Next
Next ==
    \/ \E m \in Methods, a \in ArgLists, d \in DoneKinds : Go(m, a, d)
    \/ \E id \in IDs : GoSend(id)
    \/ \E n \in Methods, a \in ArgLists, d \in DoneKinds : Subscribe(n, a, d)
    \/ \E id \in IDs : SubscribeSend(id)
    \/ \E id \in UserKeys : UserPingPong(id)
    \/ UserPing
    \/ Heartbeat
    \/ \E i \in 1..MaxPings : Timeout(i)
    \/ UserClose
    \/ UserReconnect
    \/ \E t \in Transports : \E m \in ServerMsgs : WorkerReceive(t, m)
    \/ \E t \in Transports : WorkerFail(t)
    \/ \E t \in Transports : WorkerExit(t)
    \/ \E r \in Threads : ReconnectBegin(r)
    \/ \E r \in Threads : ReconnectDial(r)
    \/ \E r \in Threads : ReconnectDialError(r)
    \/ \E r \in Threads : ReconnectReplay(r)
    \/ DispatchConnected
    \/ DispatchFailed
    \/ DispatchPing
    \/ DispatchPong
    \/ DispatchNosub
    \/ DispatchReady
    \/ DispatchResult
    \/ DispatchOther

Spec == Init /\ [][Next]_vars

\* ---------------------------------------------------------- environments
\* The claims are checked under five environments, each a part of Next: the
\* callers' operations and the server's messages that concern one registry,
\* with the workers and Reconnect except in the last one.
Receive(kinds) ==
    \E t \in Transports : \E m \in ServerMsgs :
        m.msg \in kinds /\ WorkerReceive(t, m)

\* Callers that pass a usable done channel.
Buffered == {"nil", "buffered"}

\* A transport fails or ends and its worker leaves; Reconnect runs.
Reconnecting ==
    \/ \E t \in Transports : WorkerFail(t)
    \/ \E t \in Transports : WorkerExit(t)
    \/ \E r \in Threads : ReconnectBegin(r)
    \/ \E r \in Threads : ReconnectDial(r)
    \/ \E r \in Threads : ReconnectDialError(r)
    \/ \E r \in Threads : ReconnectReplay(r)
    \/ DispatchConnected

\* Method calls and their results.
NextCalls ==
    \/ \E m \in Methods, a \in ArgLists, d \in Buffered : Go(m, a, d)
    \/ \E id \in IDs : GoSend(id)
    \/ Receive({"connected", "result"})
    \/ DispatchResult
    \/ Reconnecting

SpecCalls == Init /\ [][NextCalls]_vars

\* Subscriptions with ready and nosub.
NextSubs ==
    \/ \E n \in Methods, a \in ArgLists, d \in Buffered : Subscribe(n, a, d)
    \/ \E id \in IDs : SubscribeSend(id)
    \/ Receive({"connected", "ready", "nosub"})
    \/ DispatchNosub
    \/ DispatchReady
    \/ Reconnecting

SpecSubs == Init /\ [][NextSubs]_vars

\* Calls and subscriptions across connections: callers start Reconnect
\* themselves too, and the server sends no reply.
NextConn ==
    \/ \E m \in Methods, a \in ArgLists, d \in Buffered : Go(m, a, d)
    \/ \E id \in IDs : GoSend(id)
    \/ \E n \in Methods, a \in ArgLists, d \in Buffered : Subscribe(n, a, d)
    \/ \E id \in IDs : SubscribeSend(id)
    \/ UserReconnect
    \/ Receive({"connected"})
    \/ Reconnecting

SpecConn == Init /\ [][NextConn]_vars

\* Pings, pongs and the heartbeat.
NextPing ==
    \/ \E id \in UserKeys : UserPingPong(id)
    \/ UserPing
    \/ Heartbeat
    \/ \E i \in 1..MaxPings : Timeout(i)
    \/ Receive({"connected", "pong"})
    \/ DispatchPong
    \/ Reconnecting

SpecPing == Init /\ [][NextPing]_vars

\* Pongs for a client with calls and subscriptions registered, on a
\* transport that stays up.
NextPong ==
    \/ \E m \in Methods, a \in ArgLists, d \in Buffered : Go(m, a, d)
    \/ \E id \in IDs : GoSend(id)
    \/ \E n \in Methods, a \in ArgLists, d \in Buffered : Subscribe(n, a, d)
    \/ \E id \in IDs : SubscribeSend(id)
    \/ \E id \in UserKeys : UserPingPong(id)
    \/ UserPing
    \/ \E i \in 1..MaxPings : Timeout(i)
    \/ Receive({"pong"})
    \/ DispatchPong

SpecPong == Init /\ [][NextPong]_vars

\* Callers that close the client and callers that pass any kind of done
\* channel, across connections.
NextClose ==
    \/ \E m \in Methods, a \in ArgLists, d \in DoneKinds : Go(m, a, d)
    \/ \E id \in IDs : GoSend(id)
    \/ \E n \in Methods, a \in ArgLists, d \in DoneKinds : Subscribe(n, a, d)
    \/ \E id \in IDs : SubscribeSend(id)
    \/ UserClose
    \/ Receive({"connected"})
    \/ Reconnecting

SpecClose == Init /\ [][NextClose]_vars

\* The read of a transport that was closed here returns an error.
ClosedFail(t) == conn[t] = "closed" /\ WorkerFail(t)

\* A healthy server: it confirms the connection and sends nothing else, no
\* transport fails or ends on its side, every dial succeeds.  The heartbeat
\* sends pings, which may time out.  Executions of Reconnect and transports
\* that are over are forgotten, so that the run can go on without end.
NextStorm ==
    \/ Heartbeat
    \/ \E i \in 1..MaxPings : Timeout(i)
    \/ Receive({"connected"})
    \/ DispatchConnected
    \/ \E t \in Transports : ClosedFail(t)
    \/ \E t \in Transports : WorkerExit(t)
    \/ \E r \in Threads : ReconnectBegin(r)
    \/ \E r \in Threads : ReconnectDial(r)
    \/ \E r \in Threads : ReconnectReplay(r)
    \/ \E r \in Threads : Retire(r)
    \/ \E t \in Transports : Recycle(t)

\* The goroutines and the timers of the client run: the dispatcher, the
\* workers (a read on a closed transport returns), every Reconnect that was
\* scheduled or started.
FairClient ==
    /\ WF_vars(DispatchConnected)
    /\ \A t \in Transports : WF_vars(ClosedFail(t))
    /\ \A t \in Transports : WF_vars(WorkerExit(t))
    /\ \A r \in Threads : WF_vars(ReconnectBegin(r))
    /\ \A r \in Threads : WF_vars(ReconnectReplay(r))
    /\ \A r \in Threads : WF_vars(Retire(r))
    /\ \A t \in Transports : WF_vars(Recycle(t))

SpecStorm ==
    /\ Init /\ [][NextStorm]_vars
    /\ FairClient
    /\ \A r \in Threads : WF_vars(ReconnectDial(r))

\* The same with dials that may fail.
NextRetry ==
    \/ NextStorm
    \/ \E r \in Threads : ReconnectDialError(r)

\* Every dial returns, with a connection or with an error.
SpecRetry ==
    /\ Init /\ [][NextRetry]_vars
    /\ FairClient
    /\ \A r \in Threads : WF_vars(ReconnectDial(r) \/ ReconnectDialError(r))

\* The healthy server with callers of Go: every Go that registered its call
\* goes on to its Send.
NextGo ==
    \/ NextStorm
    \/ \E m \in Methods, a \in ArgLists, d \in Buffered : Go(m, a, d)
    \/ \E id \in IDs : GoSend(id)

SpecGo ==
    /\ Init /\ [][NextGo]_vars
    /\ FairClient
    /\ \A r \in Threads : WF_vars(ReconnectDial(r))
    /\ \A id \in IDs : WF_vars(GoSend(id))

\* ================================================================== claims

\* C1: the completion of a Call made by Go is signalled at most once, and a
\* Call whose completion was signalled is no longer in the call registry, so
\* a repeated result for its id finds nothing (also across Reconnect replays).
C1_CompletionAtMostOnce ==
    \A id \in IDs :
        call[id].kind = "method" =>
            /\ call[id].Done <= 1
            /\ call[id].Done = 1 => id \notin calls

\* A completed call, a Reconnect that has run, and one more result for the
\* same id waiting in the inbox.
C1_Witness ==
    \E id \in IDs :
        /\ call[id].kind = "method"
        /\ call[id].Done = 1
        /\ reconnects >= 1
        /\ \E i \in DOMAIN inbox : inbox[i].msg = "result" /\ inbox[i].id = id

\* The enrolled trackers: those whose ping was sent.
Enrolments == {i \in DOMAIN trk : trk[i].timer # "none"}

\* C2: the handler of every enrolled ping with a non-empty id is invoked
\* exactly once, with success or with the timeout error; stated here for
\* every state as: never more than once.
C2_HandlerExactlyOnce ==
    \A i \in Enrolments : trk[i].id # 0 => trk[i].nOk + trk[i].nErr <= 1

\* A step of an execution of Reconnect that has not returned.
ReconnectStep ==
    \E r \in Threads :
        /\ rc[r].pc \in {"scheduled", "dial", "connect"}
        /\ rc'[r] # rc[r]

\* C3: Reconnect leaves the call registry and the subscription registry as
\* they are: no step of a Reconnect sequence (close, dial, resume request,
\* replay) adds or removes an id or changes a Call, so the registries after
\* the sequence hold what the other goroutines made of them.
C3_ReconnectKeepsRegistries ==
    [][ReconnectStep => (calls' = calls /\ subs' = subs /\ call' = call)]_vars

\* A Reconnect sequence that has completed on a new transport with a call and
\* a subscription registered.
C3_Witness ==
    \E r \in Threads :
        /\ rc[r].pc = "done"
        /\ rc[r].ws # 0
        /\ calls # {}
        /\ subs # {}

\* No other execution of Reconnect is between its Close and its return.
OnlyReconnect(r) ==
    \A q \in Threads \ {r} : rc[q].pc \in {"none", "scheduled", "done"}

\* C4: when Reconnect has dialed and runs its replay, every Call of the call
\* registry is sent as a method message and every Subscription as a sub
\* message on the transport this Reconnect dialed.  Stated for the case that
\* favours the claim: the new transport has not failed and no other
\* Reconnect is running.
C4_ReplayOnNewTransport ==
    [][\A r \in Threads :
          (/\ rc[r].pc = "connect"
           /\ rc'[r].pc = "done"
           /\ worker[rc[r].ws] = "reading"
           /\ OnlyReconnect(r))
          => /\ \A id \in calls : MethodOf(id) \in sent'[rc[r].ws].msgs
             /\ \A id \in subs : SubOf(id) \in sent'[rc[r].ws].msgs]_vars

\* The executions of Reconnect between their Close and their return.
InProgress == {r \in Threads : rc[r].pc \in {"dial", "connect"}}

\* C5: at most one execution of Reconnect is in progress.
C5_OneReconnect == Cardinality(InProgress) <= 1

\* C6: every transport that is open is the current one, c.ws.
C6_OneOpenTransport == \A t \in Transports : conn[t] = "open" => t = ws

\* C7: a subscription removed from the registry by nosub has had its
\* completion signalled with the error of the message (Subscribe has
\* returned, so that a Sub is waiting for the signal).
C7_NosubSignalsError ==
    \A id \in IDs :
        (call[id].kind = "sub" /\ call[id].phase = "returned" /\ id \notin subs)
            => (call[id].Done >= 1 /\ call[id].Error # "")

\* C8: the completion of a Subscription is signalled at most once (an id is
\* registered once, so a registration epoch is the life of the Call).
C8_ReadyAtMostOnce ==
    \A id \in IDs :
        (call[id].kind = "sub" /\ call[id].phase = "returned")
            => call[id].Done <= 1

\* The enrolled trackers of key that no pong has resolved, oldest first.
RECURSIVE Unresolved(_, _)
Unresolved(key, i) ==
    IF i > Len(trk) THEN <<>>
    ELSE (IF i \in Enrolments /\ trk[i].id = key /\ trk[i].nOk = 0
          THEN <<i>> ELSE <<>>) \o Unresolved(key, i + 1)

\* C9: pings of one key are resolved in the order of their enrolment: a
\* tracker is resolved by a pong only when every older tracker of its key
\* has been; for the empty id each pong resolves the oldest unresolved
\* tracker, so the bucket is always the unresolved trackers, oldest first,
\* and no handler gets a second success.
C9_AnonymousFifo ==
    /\ \A i, j \in Enrolments :
          (i < j /\ trk[i].id = trk[j].id /\ trk[j].nOk > 0) => trk[i].nOk > 0
    /\ 0 \in DOMAIN pings => pings[0] = Unresolved(0, 1)
    /\ \A i \in Enrolments : trk[i].id = 0 => trk[i].nOk <= 1

\* Every anonymous ping of a full bucket was resolved by a pong.
C9_Witness ==
    /\ Cardinality({i \in Enrolments : trk[i].id = 0}) = MaxPings
    /\ \A i \in Enrolments : trk[i].nOk = 1

\* The dispatcher takes a pong whose key has no tracker.
UnknownPong ==
    /\ inbox # <<>>
    /\ Head(inbox).msg = "pong"
    /\ ~HasTracker(Head(inbox).id)

\* C10: dispatching a pong whose id has no tracker changes none of the
\* three registries and calls no handler.
C10_UnknownPongIgnored ==
    [][(UnknownPong /\ inbox' = Tail(inbox))
          => UNCHANGED <<pings, trk, calls, subs, call>>]_vars

\* A pong for a key without tracker is next in the inbox while another key
\* has a tracker enrolled and a call and a subscription are registered.
C10_Witness ==
    /\ UnknownPong
    /\ \E k \in DOMAIN pings : HasTracker(k)
    /\ calls # {}
    /\ subs # {}
    /\ ~halted

\* The dispatcher takes a result whose id is not in the call registry.
UnknownResult ==
    /\ inbox # <<>>
    /\ Head(inbox).msg = "result"
    /\ Head(inbox).id \notin calls

\* C11: dispatching a result whose id is not in the call registry signals
\* no completion, changes no Call and leaves the call registry (and the
\* other registries) as they are.
C11_UnknownResultIgnored ==
    [][(UnknownResult /\ inbox' = Tail(inbox))
          => UNCHANGED <<calls, call, subs, pings, trk>>]_vars

\* A retransmitted result for a completed call is next in the inbox while
\* another call is still registered.
C11_Witness ==
    /\ UnknownResult
    /\ call[Head(inbox).id].Done = 1
    /\ calls # {}
    /\ ~halted

\* C12: Close is idempotent: from every state in which a Close returns, a
\* second Close right after it returns too and leaves the heartbeat timer
\* (stopped), the connections and c.ws (nil) as the first left them; Close
\* touches nothing else.
C12_CloseIdempotent ==
    ~ClosePanics =>
        LET first == CloseOf(ws, conn, pingTimer)
            second == CloseOf(first.ws, first.conn, first.pingTimer)
        IN  /\ ~second.panics
            /\ second = first
            /\ first.ws = 0
            /\ first.pingTimer = "idle"

\* A caller's Close has returned on a connected client (no worker has left
\* and no Reconnect was started), so that its next Close is the second one.
C12_Witness ==
    /\ ~halted
    /\ ws = 0
    /\ pingTimer = "idle"
    /\ conn[1] = "closed"
    /\ worker[1] = "reading"
    /\ \A r \in Threads : rc[r].pc = "none"

\* A step in which a Close closes the current transport.
CloseStep == ws # 0 /\ ws' = 0

\* C13: Close leaves the call registry and the subscription registry as
\* they are and signals no completion: no Call changes.
C13_CloseKeepsRegistries ==
    [][CloseStep => UNCHANGED <<calls, subs, call>>]_vars

\* A Close has returned while a call and a subscription are pending, both
\* unsignalled.
C13_Witness ==
    /\ ~halted
    /\ ws = 0
    /\ pingTimer = "idle"
    /\ \E i \in calls : call[i].Done = 0 /\ call[i].phase = "returned"
    /\ \E i \in subs : call[i].Done = 0 /\ call[i].phase = "returned"

\* C14: Go and Subscribe with an unbuffered done channel panic, register
\* nothing and send nothing; with a nil done channel they register the Call
\* under the new id and go on to their Send.
C14_UnbufferedDonePanics ==
    [][\A m \in Methods, a \in ArgLists :
          /\ (Go(m, a, "unbuffered") \/ Subscribe(m, a, "unbuffered"))
                => (halted' /\ UNCHANGED <<calls, subs, call, sent>>)
          /\ Go(m, a, "nil")
                => (/\ ~halted'
                    /\ calls' = calls \cup {nextID}
                    /\ call'[nextID].phase = "registered")
          /\ Subscribe(m, a, "nil")
                => (/\ ~halted'
                    /\ subs' = subs \cup {nextID}
                    /\ call'[nextID].phase = "registered")]_vars

\* The first Go or Subscribe registered its Call and sent it, the second
\* one panicked on its done channel.
C14_Witness ==
    /\ halted
    /\ pingTimer # "nil"
    /\ nextID = 3
    /\ Cardinality(calls \cup subs) = 1
    /\ \A i \in calls \cup subs : call[i].phase = "returned"
    /\ call[2] = NoCall

\* C16: every key of the ping registry holds a tracker whose timer has
\* neither fired nor been stopped.
C16_LiveTrackerPerKey ==
    \A k \in DOMAIN pings :
        \E j \in 1..Len(pings[k]) : trk[pings[k][j]].timer = "armed"

\* C17: the first message sent on every transport is its connect message.
C17_ConnectFirst ==
    \A t \in Transports :
        sent[t].first # <<>> => sent[t].first[1].msg = "connect"

\* C19: a worker that leaves closes no transport but the one it was
\* reading from.
C19_WorkerClosesOwn ==
    [][\A t \in Transports :
          (worker[t] = "failed" /\ worker'[t] = "exited")
             => \A u \in Transports \ {t} : conn'[u] = conn[u]]_vars

Dialed ==
    \E r \in Threads : rc[r].pc = "connect" /\ sent[rc[r].ws] = NoWire

\* The session has an open transport dialed by Reconnect, with the resume
\* request sent on it and its worker reading.
Resumed ==
    /\ ws # 0
    /\ conn[ws] = "open"
    /\ worker[ws] = "reading"
    /\ \E s \in Sessions : NewReconnect(s) \in sent[ws].msgs

\* C15 (its consequence): once a dial of Reconnect has succeeded, the
\* session eventually has a new transport with the resume request sent and
\* a worker reading it.
C15_DialedLeadsToResumed == Dialed ~> Resumed

\* No Reconnect is scheduled or running and no worker is about to schedule
\* one; the session has an open transport with its worker, and no other
\* transport is open.
Quiet ==
    /\ ws # 0
    /\ conn[ws] = "open"
    /\ worker[ws] = "reading"
    /\ \A t \in Transports : conn[t] = "open" => t = ws
    /\ \A r \in Threads : rc[r].pc \in {"none", "done"}
    /\ \A t \in Transports : worker[t] = "reading" => conn[t] = "open"
    /\ \A t \in Transports : worker[t] # "failed"

\* C20: reconnection converges: eventually the session keeps one transport
\* open for ever and no Reconnect is scheduled any more.
C20_Converges == <>[]Quiet

\* Go has returned for id and the call is still in the call registry.
Pending(id) ==
    /\ call[id].kind = "method"
    /\ call[id].phase = "returned"
    /\ id \in calls

\* The method message of id was sent on the current transport, which is open.
OnCurrent(id) ==
    /\ ws # 0
    /\ conn[ws] = "open"
    /\ MethodOf(id) \in sent[ws].msgs

\* C21: a call that Go registered does not stay pending without having been
\* sent on the current transport: as long as it is pending, it is sent again
\* (by Go itself or by the replay of a Reconnect) on the transport the
\* session has, also when the Send of Go failed on the nil socket.
C21_PendingLeadsToSent ==
    \A id \in IDs : Pending(id) ~> (OnCurrent(id) \/ id \notin calls)

\* A step in which Close is called: by a caller, by the exit path of a
\* worker, or at the start of Reconnect.
CloseCall ==
    \/ UserClose
    \/ \E t \in Transports : WorkerExit(t)
    \/ \E r \in Threads : ReconnectBegin(r)

\* C22: Close returns in every state of the session: no call of Close ends
\* the process, also before any connected message was dispatched.
C22_CloseReturns == [][CloseCall => ~halted']_vars

====
